---- MODULE Spec2Model ----
(***************************************************************************)
(* Album-cover mosaic builder (main.py): the album source reader           *)
(* (extract_unique_albums), the acquisition driver (download_covers) with  *)
(* its HTTP backoff helper (get_with_backoff) and the on-disk cover cache, *)
(* the loader (load_images_from_disk) and the compositor (build_mosaic).   *)
(*                                                                         *)
(* Text is modelled as a sequence of one-character strings, a file path    *)
(* as the cache key followed by its extensions, and the cache directory    *)
(* as a function from the paths that exist to the content of each file.    *)
(***************************************************************************)
EXTENDS Integers, Sequences, FiniteSets, TLC

\* ------------------------------------------------------------------------
\* Program constants (main.py, CONFIG block)
\* ------------------------------------------------------------------------
FINAL_SIZE == 2000
BASE_DELAY == 2
MAX_RETRIES == 5

\* ------------------------------------------------------------------------
\* Bounds of the model
\* ------------------------------------------------------------------------
MaxAlbums == 2      \* longest identity list handed to download_covers
MaxRuns == 2        \* number of consecutive download_covers runs
MaxRows == 2        \* longest table read by extract_unique_albums
MaxTiles == 12      \* longest image list handed to build_mosaic

\* ------------------------------------------------------------------------
\* Text helpers
\* ------------------------------------------------------------------------
IsSpace(c) == c = " "

LowerChar(c) == IF c = "A" THEN "a"
                ELSE IF c = "B" THEN "b"
                ELSE IF c = "X" THEN "x"
                ELSE c

\* str.lower()
Lower(s) == [k \in 1..Len(s) |-> LowerChar(s[k])]

RECURSIVE LStrip(_)
LStrip(s) == IF s = << >> THEN s
             ELSE IF IsSpace(Head(s)) THEN LStrip(Tail(s))
             ELSE s

RECURSIVE RStrip(_)
RStrip(s) == IF s = << >> THEN s
             ELSE IF IsSpace(s[Len(s)]) THEN RStrip(SubSeq(s, 1, Len(s) - 1))
             ELSE s

\* str.strip()
Strip(s) == RStrip(LStrip(s))

\* re.sub(r"\s+", " ", t): every maximal whitespace run becomes one space
RECURSIVE CollapseSpace(_)
CollapseSpace(s) ==
    IF s = << >> THEN s
    ELSE IF IsSpace(Head(s)) THEN << " " >> \o CollapseSpace(LStrip(s))
    ELSE << Head(s) >> \o CollapseSpace(Tail(s))

normalize(text) == CollapseSpace(Lower(Strip(text)))

\* the character class [a-z0-9] of slugify, over the model's alphabet
IsSlugChar(c) == c \in {"a", "b", "x", "0", "1"}

RECURSIVE DropNonSlug(_)
DropNonSlug(s) == IF s = << >> THEN s
                  ELSE IF IsSlugChar(Head(s)) THEN s
                  ELSE DropNonSlug(Tail(s))

\* re.sub(r"[^a-z0-9]+", "_", t): every maximal run outside the class becomes "_"
RECURSIVE ReplaceRuns(_)
ReplaceRuns(s) ==
    IF s = << >> THEN s
    ELSE IF IsSlugChar(Head(s)) THEN << Head(s) >> \o ReplaceRuns(Tail(s))
    ELSE << "_" >> \o ReplaceRuns(DropNonSlug(s))

RECURSIVE LStripSep(_)
LStripSep(s) == IF s = << >> THEN s
                ELSE IF Head(s) = "_" THEN LStripSep(Tail(s))
                ELSE s

RECURSIVE RStripSep(_)
RStripSep(s) == IF s = << >> THEN s
                ELSE IF s[Len(s)] = "_" THEN RStripSep(SubSeq(s, 1, Len(s) - 1))
                ELSE s

slugify(text) == RStripSep(LStripSep(ReplaceRuns(Lower(text))))

\* an identity is the pair << artist, album >>
cover_path(id) == slugify(id[1] \o << "_" >> \o id[2]) \o << ".jpg" >>

miss_path(id) == cover_path(id) \o << ".miss" >>

\* ------------------------------------------------------------------------
\* Inputs
\* ------------------------------------------------------------------------
\* Identities the reader can deliver: both fields stripped and non-empty.
\* The first three share the cache key a_x, the first two also normalize
\* to the same pair.
AlbumUniverse ==
    { << << "a" >>, << "x" >> >>,
      << << "A" >>, << "x" >> >>,
      << << "a", "-" >>, << "x" >> >>,
      << << "b" >>, << "x" >> >> }

NoDup(s) == \A m, n \in 1..Len(s) : m # n => s[m] # s[n]

SeqsUpTo(S, n) == UNION { [1..k -> S] : k \in 0..n }

\* list(albums) of a set: any order, no repetition
AlbumLists == { s \in SeqsUpTo(AlbumUniverse, MaxAlbums) : NoDup(s) }

StatusCodes == {200, 429, 404, 503}

\* cells of the Artist and of the Album column; << >> is an empty or absent cell
ArtistCells == { << "a" >>, << "A" >>, << " ", "a" >>, << "a", " ", "b" >>,
                 << "a", " ", " ", "b" >>, << " " >>, << >> }

AlbumCells == { << "x" >>, << "X" >>, << >> }

RowLists == SeqsUpTo(ArtistCells \X AlbumCells, MaxRows)

\* list(s) of a set s: its elements once each, in any order
Orderings(S) == { s \in [1..Cardinality(S) -> S] : NoDup(s) }

VARIABLES
    albums,        \* the identity list (argument of download_covers, result of the reader)
    run,           \* number of the current download_covers run
    i,             \* position of the for loop in albums (1-based)
    pc,            \* control point of the driver
    phase,         \* "search" or "image": whose get_with_backoff call is active
    attempt,       \* loop variable of get_with_backoff
    delay,         \* local delay of get_with_backoff, in seconds
    status,        \* r.status_code of the last response (0: none yet)
    disk,          \* TEMP_DIR: existing path |-> content
    nSearch,       \* search requests sent for the album last attempted (0 once the loop moved on)
    nImage,        \* image requests sent for that album
    all429,        \* every search request of that album was answered 429
    waited,        \* seconds slept since the last HTTP request of the run
    backoffs,      \* backoff waits of the active get_with_backoff call, in order
    lastReq,       \* index of the album of the last HTTP request of the run (0: none)
    outcome,       \* per index of albums: how its iteration ended in the current run
    delayedAfter,  \* indices after whose iteration sleep(BASE_DELAY) ran
    disk0,         \* the cache directory as the current run found it
    rows,          \* the table rows read by extract_unique_albums
    rowIdx,        \* position of the reader in rows
    seen,          \* the local set `albums` of extract_unique_albums
    done,          \* steps the acquisition of the album last attempted went through
    listing,       \* sorted(os.listdir(TEMP_DIR)) of load_images_from_disk
    fileIdx,       \* position of load_images_from_disk in listing
    images,        \* the image list: each image named by the path it was read from
    grid,          \* local grid of build_mosaic (0: not computed)
    tile_size,     \* local tile_size of build_mosaic (0: not computed)
    tileIdx,       \* loop variable i of build_mosaic (0-based)
    pasted,        \* the paste calls so far: << x, y, edge >> per tile, in order
    console,       \* the lines printed by build_mosaic
    output         \* whether OUTPUT_IMAGE was written

vars == << albums, run, i, pc, phase, attempt, delay, status, disk,
           nSearch, nImage, all429, waited, backoffs, lastReq, outcome,
           delayedAfter, disk0, rows, rowIdx, seen, done, listing, fileIdx,
           images, grid, tile_size, tileIdx, pasted, console, output >>

readerVars == << rows, rowIdx, seen >>

driverVars == << run, i, phase, attempt, delay, status, disk, nSearch, nImage,
                all429, waited, backoffs, lastReq, outcome, delayedAfter, disk0,
                done >>

mosaicVars == << listing, fileIdx, images, grid, tile_size, tileIdx, pasted,
                console, output >>

\* the compositor has not started
MosaicIdle ==
    /\ listing = << >>
    /\ fileIdx = 1
    /\ images = << >>
    /\ grid = 0
    /\ tile_size = 0
    /\ tileIdx = 0
    /\ pasted = << >>
    /\ console = << >>
    /\ output = FALSE

\* ------------------------------------------------------------------------
\* The cache directory
\* ------------------------------------------------------------------------
Exists(path) == path \in DOMAIN disk

WriteFile(d, path, content) ==
    [p \in (DOMAIN d) \cup {path} |-> IF p = path THEN content ELSE d[p]]

RemoveFile(d, path) == [p \in (DOMAIN d) \ {path} |-> d[p]]

\* variant: the skip test looks at the miss marker only
ResolvedMissOnly(id) == Exists(miss_path(id))

\* variant: the skip test looks at the artifact only
ResolvedArtifactOnly(id) == Exists(cover_path(id))

\* line 108: os.path.exists(img_path) or os.path.exists(miss)
Resolved(id) == Exists(cover_path(id)) \/ Exists(miss_path(id))

\* variant: the fetch, decode and save statements stand after the try block
TryBlockSearchOnly == {"get", "resp", "parse", "miss"}

\* the statements of one loop iteration that lie inside try: ... except Exception
TryBlock == {"get", "resp", "parse", "decode", "save", "writing", "miss"}

\* where control goes when the statement at control point p raises
Raise(p) == IF p \in TryBlock THEN "except" ELSE "abort"

\* variant: every status other than 200 is retried
RetryAnyFailure(s) == s # 200

\* line 68: the status that is retried
ShouldRetry(s) == s = 429

\* variant: one attempt too many
LoopContinuesOffByOne(a) == a <= MAX_RETRIES

\* line 64: for attempt in range(MAX_RETRIES)
LoopContinues(a) == a < MAX_RETRIES

cur == albums[i]

Fresh == [k \in 1..Len(albums) |-> "pending"]

Mark(o) == [outcome EXCEPT ![i] = o]

\* what a cache file of the given path holds when an earlier run resolved it
Content(path) == IF path[Len(path)] = ".miss" THEN "empty" ELSE "image"

\* TEMP_DIR as earlier runs may have left it: per identity of the list
\* nothing, the artifact or the miss marker
InitialDisks ==
    LET paths == { cover_path(id) : id \in AlbumUniverse }
                 \cup { miss_path(id) : id \in AlbumUniverse }
        both(D) == \E id \in AlbumUniverse : cover_path(id) \in D /\ miss_path(id) \in D
    IN  { [p \in D |-> Content(p)] : D \in { E \in SUBSET paths : ~both(E) } }

\* ------------------------------------------------------------------------
\* download_covers
\* ------------------------------------------------------------------------
Init ==
    /\ albums \in AlbumLists
    /\ run = 1
    /\ i = 1
    /\ pc = "loop"
    /\ phase = "search"
    /\ attempt = 0
    /\ delay = 1
    /\ status = 0
    /\ disk \in InitialDisks
    /\ disk0 = disk
    /\ nSearch = 0
    /\ nImage = 0
    /\ all429 = TRUE
    /\ waited = 0
    /\ backoffs = << >>
    /\ lastReq = 0
    /\ outcome = Fresh
    /\ delayedAfter = {}
    /\ rows = << >>
    /\ rowIdx = 1
    /\ seen = {}
    /\ done = {}
    /\ MosaicIdle

\* variant: a resolved identity falls through to the sleep at the end of the body
SkipThenDelay ==
    /\ pc = "loop"
    /\ i <= Len(albums)
    /\ Resolved(cur)
    /\ pc' = "delay"
    /\ outcome' = Mark("skipped")
    /\ nSearch' = 0
    /\ nImage' = 0
    /\ all429' = TRUE
    /\ backoffs' = << >>
    /\ UNCHANGED << albums, run, i, phase, attempt, delay, status, disk,
                    waited, lastReq, delayedAfter, disk0 >>
    /\ done' = {}
    /\ UNCHANGED readerVars
    /\ UNCHANGED mosaicVars

\* lines 104-109: the identity is already resolved, continue
Skip ==
    /\ pc = "loop"
    /\ i <= Len(albums)
    /\ Resolved(cur)
    /\ i' = i + 1
    /\ outcome' = Mark("skipped")
    /\ nSearch' = 0
    /\ nImage' = 0
    /\ all429' = TRUE
    /\ backoffs' = << >>
    /\ UNCHANGED << albums, run, pc, phase, attempt, delay, status, disk,
                    waited, lastReq, delayedAfter, disk0 >>
    /\ done' = {}
    /\ UNCHANGED readerVars
    /\ UNCHANGED mosaicVars

\* lines 104-112, 76-81, 62-64: enter the try block and the search call
StartAlbum ==
    /\ pc = "loop"
    /\ i <= Len(albums)
    /\ ~Resolved(cur)
    /\ pc' = "get"
    /\ phase' = "search"
    /\ attempt' = 0
    /\ delay' = 1
    /\ nSearch' = 0
    /\ nImage' = 0
    /\ all429' = TRUE
    /\ backoffs' = << >>
    /\ status' = 0
    /\ UNCHANGED << albums, run, i, disk, waited, lastReq,
                    outcome, delayedAfter, disk0 >>
    /\ done' = {}
    /\ UNCHANGED readerVars
    /\ UNCHANGED mosaicVars

Sent ==
    /\ nSearch' = IF phase = "search" THEN nSearch + 1 ELSE nSearch
    /\ nImage' = IF phase = "image" THEN nImage + 1 ELSE nImage
    /\ waited' = 0
    /\ lastReq' = i

\* line 65: SESSION.get returns a response
SendRequest ==
    /\ pc = "get"
    /\ \E s \in StatusCodes :
          /\ status' = s
          /\ all429' = IF phase = "search" THEN all429 /\ s = 429 ELSE all429
    /\ Sent
    /\ pc' = "resp"
    /\ UNCHANGED << albums, run, i, phase, attempt, delay, disk, backoffs,
                    outcome, delayedAfter, disk0 >>
    /\ UNCHANGED done
    /\ UNCHANGED readerVars
    /\ UNCHANGED mosaicVars

\* line 65: SESSION.get raises (timeout, connection error)
RequestRaises ==
    /\ pc = "get"
    /\ Sent
    /\ all429' = IF phase = "search" THEN FALSE ELSE all429
    /\ pc' = Raise(pc)
    /\ outcome' = Mark("request_raised")
    /\ UNCHANGED << albums, run, i, phase, attempt, delay, status, disk, backoffs,
                    delayedAfter, disk0 >>
    /\ UNCHANGED done
    /\ UNCHANGED readerVars
    /\ UNCHANGED mosaicVars

\* lines 66-67 and 82/95: status 200, the call returns the response
Return200 ==
    /\ pc = "resp"
    /\ status = 200
    /\ pc' = IF phase = "search" THEN "parse" ELSE "decode"
    /\ UNCHANGED << albums, run, i, phase, attempt, delay, status, disk,
                    nSearch, nImage, all429, waited, backoffs, lastReq, outcome,
                    delayedAfter, disk0 >>
    /\ done' = done \cup {IF phase = "search" THEN "search200" ELSE "image200"}
    /\ UNCHANGED readerVars
    /\ UNCHANGED mosaicVars

\* lines 68-71 and 64/73: status 429, sleep, double the delay, next attempt
\* or, when the range is used up, return None
Backoff ==
    /\ pc = "resp"
    /\ status # 200
    /\ ShouldRetry(status)
    /\ waited' = waited + delay
    /\ backoffs' = Append(backoffs, delay)
    /\ delay' = delay * 2
    /\ attempt' = attempt + 1
    /\ IF LoopContinues(attempt + 1)
          THEN /\ pc' = "get"
               /\ outcome' = outcome
          ELSE /\ pc' = "miss"
               /\ outcome' = Mark("exhausted")
    /\ UNCHANGED << albums, run, i, phase, status, disk, nSearch, nImage,
                    all429, lastReq, delayedAfter, disk0 >>
    /\ UNCHANGED done
    /\ UNCHANGED readerVars
    /\ UNCHANGED mosaicVars

\* line 72: any other status, return None
GiveUp ==
    /\ pc = "resp"
    /\ status # 200
    /\ ~ShouldRetry(status)
    /\ pc' = "miss"
    /\ outcome' = Mark("bad_status")
    /\ UNCHANGED << albums, run, i, phase, attempt, delay, status, disk,
                    nSearch, nImage, all429, waited, backoffs, lastReq,
                    delayedAfter, disk0 >>
    /\ UNCHANGED done
    /\ UNCHANGED readerVars
    /\ UNCHANGED mosaicVars

\* lines 85-90, 113, 117, 94 and 62-64: the first result carries an image
\* reference; enter the image call
ParseFound ==
    /\ pc = "parse"
    /\ pc' = "get"
    /\ phase' = "image"
    /\ attempt' = 0
    /\ delay' = 1
    /\ backoffs' = << >>
    /\ status' = 0
    /\ UNCHANGED << albums, run, i, disk, nSearch, nImage,
                    all429, waited, lastReq, outcome, delayedAfter, disk0 >>
    /\ done' = done \cup {"imgref"}
    /\ UNCHANGED readerVars
    /\ UNCHANGED mosaicVars

\* lines 85-88: no result entry, or an entry without image reference
ParseNone ==
    /\ pc = "parse"
    /\ pc' = "miss"
    /\ outcome' = Mark("no_result")
    /\ UNCHANGED << albums, run, i, phase, attempt, delay, status, disk,
                    nSearch, nImage, all429, waited, backoffs, lastReq,
                    delayedAfter, disk0 >>
    /\ UNCHANGED done
    /\ UNCHANGED readerVars
    /\ UNCHANGED mosaicVars

\* lines 85-87: building or querying the parse tree raises
ParseRaises ==
    /\ pc = "parse"
    /\ pc' = Raise(pc)
    /\ outcome' = Mark("parse_raised")
    /\ UNCHANGED << albums, run, i, phase, attempt, delay, status, disk,
                    nSearch, nImage, all429, waited, backoffs, lastReq,
                    delayedAfter, disk0 >>
    /\ UNCHANGED done
    /\ UNCHANGED readerVars
    /\ UNCHANGED mosaicVars

\* line 98: the bytes decode; an Image object is always true at line 118
DecodeOk ==
    /\ pc = "decode"
    /\ pc' = "save"
    /\ UNCHANGED << albums, run, i, phase, attempt, delay, status, disk,
                    nSearch, nImage, all429, waited, backoffs, lastReq, outcome,
                    delayedAfter, disk0 >>
    /\ done' = done \cup {"decoded"}
    /\ UNCHANGED readerVars
    /\ UNCHANGED mosaicVars

\* line 98: Image.open or convert raises
DecodeRaises ==
    /\ pc = "decode"
    /\ pc' = Raise(pc)
    /\ outcome' = Mark("decode_raised")
    /\ UNCHANGED << albums, run, i, phase, attempt, delay, status, disk,
                    nSearch, nImage, all429, waited, backoffs, lastReq,
                    delayedAfter, disk0 >>
    /\ UNCHANGED done
    /\ UNCHANGED readerVars
    /\ UNCHANGED mosaicVars

\* line 122: img.save opens img_path for writing, the file now exists
SaveCreate ==
    /\ pc = "save"
    /\ disk' = WriteFile(disk, cover_path(cur), "partial")
    /\ pc' = "writing"
    /\ UNCHANGED << albums, run, i, phase, attempt, delay, status,
                    nSearch, nImage, all429, waited, backoffs, lastReq, outcome,
                    delayedAfter, disk0 >>
    /\ done' = done \cup {"created"}
    /\ UNCHANGED readerVars
    /\ UNCHANGED mosaicVars

\* line 122: img.save raises before the file is created
SaveOpenRaises ==
    /\ pc = "save"
    /\ pc' = Raise(pc)
    /\ outcome' = Mark("save_raised")
    /\ UNCHANGED << albums, run, i, phase, attempt, delay, status, disk,
                    nSearch, nImage, all429, waited, backoffs, lastReq,
                    delayedAfter, disk0 >>
    /\ UNCHANGED done
    /\ UNCHANGED readerVars
    /\ UNCHANGED mosaicVars

\* line 122: img.save writes the JPEG and closes the file
SaveComplete ==
    /\ pc = "writing"
    /\ disk' = WriteFile(disk, cover_path(cur), "image")
    /\ pc' = "delay"
    /\ outcome' = Mark("saved")
    /\ UNCHANGED << albums, run, i, phase, attempt, delay, status,
                    nSearch, nImage, all429, waited, backoffs, lastReq,
                    delayedAfter, disk0 >>
    /\ done' = done \cup {"saved"}
    /\ UNCHANGED readerVars
    /\ UNCHANGED mosaicVars

\* line 122: img.save raises after the file was created; whether the
\* incomplete file is left behind or removed depends on the imaging library
SaveWriteRaises ==
    /\ pc = "writing"
    /\ \E removed \in BOOLEAN :
          disk' = IF removed THEN RemoveFile(disk, cover_path(cur)) ELSE disk
    /\ pc' = Raise(pc)
    /\ outcome' = Mark("save_raised")
    /\ UNCHANGED << albums, run, i, phase, attempt, delay, status,
                    nSearch, nImage, all429, waited, backoffs, lastReq,
                    delayedAfter, disk0 >>
    /\ UNCHANGED done
    /\ UNCHANGED readerVars
    /\ UNCHANGED mosaicVars

\* lines 113-115 and 118-120: open(miss, "w").close(); continue
WriteMiss ==
    /\ pc = "miss"
    /\ disk' = WriteFile(disk, miss_path(cur), "empty")
    /\ i' = i + 1
    /\ pc' = "loop"
    /\ phase' = "search"
    /\ attempt' = 0
    /\ delay' = 1
    /\ status' = 0
    /\ UNCHANGED << albums, run, nSearch, nImage, all429, waited, backoffs,
                    lastReq, outcome, delayedAfter, disk0 >>
    /\ done' = done \cup {"miss"}
    /\ UNCHANGED readerVars
    /\ UNCHANGED mosaicVars

\* lines 124-125: except Exception: open(miss, "w").close()
Except ==
    /\ pc = "except"
    /\ disk' = WriteFile(disk, miss_path(cur), "empty")
    /\ pc' = "delay"
    /\ UNCHANGED << albums, run, i, phase, attempt, delay, status,
                    nSearch, nImage, all429, waited, backoffs, lastReq, outcome,
                    delayedAfter, disk0 >>
    /\ done' = done \cup {"miss"}
    /\ UNCHANGED readerVars
    /\ UNCHANGED mosaicVars

\* line 127: time.sleep(BASE_DELAY), end of the iteration (its locals are dropped)
Delay ==
    /\ pc = "delay"
    /\ waited' = waited + BASE_DELAY
    /\ delayedAfter' = delayedAfter \cup {i}
    /\ i' = i + 1
    /\ pc' = "loop"
    /\ phase' = "search"
    /\ attempt' = 0
    /\ delay' = 1
    /\ status' = 0
    /\ UNCHANGED << albums, run, disk, nSearch, nImage, all429, backoffs,
                    lastReq, outcome, disk0 >>
    /\ UNCHANGED done
    /\ UNCHANGED readerVars
    /\ UNCHANGED mosaicVars

\* line 104: the list is used up, download_covers returns
Return ==
    /\ pc = "loop"
    /\ i > Len(albums)
    /\ pc' = "returned"
    /\ nSearch' = 0
    /\ nImage' = 0
    /\ all429' = TRUE
    /\ backoffs' = << >>
    /\ UNCHANGED << albums, run, i, phase, attempt, delay, status, disk,
                    waited, lastReq, outcome, delayedAfter, disk0 >>
    /\ done' = {}
    /\ UNCHANGED readerVars
    /\ UNCHANGED mosaicVars

\* lines 101-104: download_covers is called again on the same list with the
\* cache directory as the previous run left it
Rerun ==
    /\ pc = "returned"
    /\ run < MaxRuns
    /\ run' = run + 1
    /\ i' = 1
    /\ pc' = "loop"
    /\ disk0' = disk
    /\ waited' = 0
    /\ lastReq' = 0
    /\ outcome' = Fresh
    /\ delayedAfter' = {}
    /\ UNCHANGED << albums, phase, attempt, delay, status, disk, nSearch, nImage,
                    all429, backoffs >>
    /\ UNCHANGED done
    /\ UNCHANGED readerVars
    /\ UNCHANGED mosaicVars

Next ==
    \/ Skip
    \/ StartAlbum
    \/ SendRequest
    \/ RequestRaises
    \/ Return200
    \/ Backoff
    \/ GiveUp
    \/ ParseFound
    \/ ParseNone
    \/ ParseRaises
    \/ DecodeOk
    \/ DecodeRaises
    \/ SaveCreate
    \/ SaveOpenRaises
    \/ SaveComplete
    \/ SaveWriteRaises
    \/ WriteMiss
    \/ Except
    \/ Delay
    \/ Return
    \/ Rerun

Spec == Init /\ [][Next]_vars

\* the process is terminated inside download_covers, at any statement of the
\* loop, and the program is started again on the same list: the cache
\* directory is all that survives
Kill ==
    /\ pc \in {"loop", "get", "resp", "parse", "decode", "save", "writing",
               "miss", "except", "delay"}
    /\ run < MaxRuns
    /\ run' = run + 1
    /\ i' = 1
    /\ pc' = "loop"
    /\ phase' = "search"
    /\ attempt' = 0
    /\ delay' = 1
    /\ status' = 0
    /\ nSearch' = 0
    /\ nImage' = 0
    /\ all429' = TRUE
    /\ waited' = 0
    /\ backoffs' = << >>
    /\ lastReq' = 0
    /\ outcome' = Fresh
    /\ delayedAfter' = {}
    /\ done' = {}
    /\ disk0' = disk
    /\ UNCHANGED << albums, disk >>
    /\ UNCHANGED readerVars
    /\ UNCHANGED mosaicVars

NextKill ==
    \/ Next
    \/ Kill

SpecKill == Init /\ [][NextKill]_vars

\* ------------------------------------------------------------------------
\* extract_unique_albums
\* ------------------------------------------------------------------------
InitReader ==
    /\ rows \in RowLists
    /\ rowIdx = 1
    /\ seen = {}
    /\ albums = << >>
    /\ pc = "reading"
    /\ run = 1
    /\ i = 1
    /\ phase = "search"
    /\ attempt = 0
    /\ delay = 1
    /\ status = 0
    /\ disk = [p \in {} |-> "empty"]
    /\ disk0 = disk
    /\ nSearch = 0
    /\ nImage = 0
    /\ all429 = TRUE
    /\ waited = 0
    /\ backoffs = << >>
    /\ lastReq = 0
    /\ outcome = << >>
    /\ delayedAfter = {}
    /\ done = {}
    /\ MosaicIdle

\* lines 54-58: one row of the table
ReadRow ==
    /\ pc = "reading"
    /\ rowIdx <= Len(rows)
    /\ LET artist == Strip(rows[rowIdx][1])
           album == Strip(rows[rowIdx][2])
       IN  seen' = IF artist # << >> /\ album # << >>
                      THEN seen \cup { << artist, album >> }
                      ELSE seen
    /\ rowIdx' = rowIdx + 1
    /\ UNCHANGED << albums, pc, rows >>
    /\ UNCHANGED driverVars
    /\ UNCHANGED mosaicVars

\* line 59: return list(albums)
ReturnList ==
    /\ pc = "reading"
    /\ rowIdx > Len(rows)
    /\ albums' \in Orderings(seen)
    /\ pc' = "extracted"
    /\ UNCHANGED << rows, rowIdx, seen >>
    /\ UNCHANGED driverVars
    /\ UNCHANGED mosaicVars

NextReader ==
    \/ ReadRow
    \/ ReturnList

SpecReader == InitReader /\ [][NextReader]_vars

\* ------------------------------------------------------------------------
\* build_mosaic
\* ------------------------------------------------------------------------
\* the integer part of math.sqrt(n): the largest r with r * r <= n, found
\* by counting up from r
RECURSIVE IntSqrtFrom(_, _)
IntSqrtFrom(n, r) == IF (r + 1) * (r + 1) > n THEN r ELSE IntSqrtFrom(n, r + 1)

IntSqrt(n) == IntSqrtFrom(n, 0)

\* variant: the root is truncated, int(math.sqrt(count))
TruncSqrt(n) == IntSqrt(n)

\* line 149: math.ceil(math.sqrt(count)); the double root is exact for a
\* perfect square and lies strictly between two integers otherwise (counts
\* below 2^52)
CeilSqrt(n) == IF IntSqrt(n) * IntSqrt(n) = n THEN IntSqrt(n) ELSE IntSqrt(n) + 1

\* variant: the early return is missing
NeverEmpty(n) == FALSE

\* line 145: count == 0
IsEmpty(n) == n = 0

\* variant: the row is taken from the column index
TileOffsetSameIndex(k, g, t) == << (k % g) * t, (k % g) * t >>

\* lines 156-157: x and y of tile k (0-based) on a grid of g columns of width t
TileOffset(k, g, t) == << (k % g) * t, (k \div g) * t >>

\* one image per list position; the image is named by its position
TileLists == { [k \in 1..n |-> << "tile", k >>] : n \in 0..MaxTiles }

Line(text, numbers) == << text, numbers >>

InitMosaic ==
    /\ images \in TileLists
    /\ pc = "build"
    /\ listing = << >>
    /\ fileIdx = 1
    /\ grid = 0
    /\ tile_size = 0
    /\ tileIdx = 0
    /\ pasted = << >>
    /\ console = << >>
    /\ output = FALSE
    /\ albums = << >>
    /\ run = 1
    /\ i = 1
    /\ phase = "search"
    /\ attempt = 0
    /\ delay = 1
    /\ status = 0
    /\ disk = [p \in {} |-> "empty"]
    /\ disk0 = disk
    /\ nSearch = 0
    /\ nImage = 0
    /\ all429 = TRUE
    /\ waited = 0
    /\ backoffs = << >>
    /\ lastReq = 0
    /\ outcome = << >>
    /\ delayedAfter = {}
    /\ done = {}
    /\ rows = << >>
    /\ rowIdx = 1
    /\ seen = {}

\* lines 144-147: no image, print the notice and return
BuildEmpty ==
    /\ pc = "build"
    /\ IsEmpty(Len(images))
    /\ console' = Append(console, Line("No images found.", << >>))
    /\ pc' = "built"
    /\ UNCHANGED << albums, listing, fileIdx, images, grid, tile_size, tileIdx,
                    pasted, output >>
    /\ UNCHANGED driverVars
    /\ UNCHANGED readerVars

\* lines 144-152: grid and tile size; a grid of 0 makes the division raise
ComputeGrid ==
    /\ pc = "build"
    /\ ~IsEmpty(Len(images))
    /\ grid' = CeilSqrt(Len(images))
    /\ IF grid' = 0
          THEN /\ pc' = "abort"
               /\ tile_size' = tile_size
          ELSE /\ pc' = "paste"
               /\ tile_size' = FINAL_SIZE \div grid'
    /\ tileIdx' = 0
    /\ UNCHANGED << albums, listing, fileIdx, images, pasted, console, output >>
    /\ UNCHANGED driverVars
    /\ UNCHANGED readerVars

\* lines 154-158: resize one image to the tile size and paste it; resizing
\* to an edge of 0 raises
PasteTile ==
    /\ pc = "paste"
    /\ tileIdx < Len(images)
    /\ IF tile_size = 0
          THEN /\ pc' = "abort"
               /\ UNCHANGED << pasted, tileIdx >>
          ELSE /\ pasted' = Append(pasted, TileOffset(tileIdx, grid, tile_size)
                                              \o << tile_size >>)
               /\ tileIdx' = tileIdx + 1
               /\ pc' = pc
    /\ UNCHANGED << albums, listing, fileIdx, images, grid, tile_size, console,
                    output >>
    /\ UNCHANGED driverVars
    /\ UNCHANGED readerVars

\* lines 160-162: write OUTPUT_IMAGE and print the summary
SaveMosaic ==
    /\ pc = "paste"
    /\ tileIdx = Len(images)
    /\ output' = TRUE
    /\ console' = console \o << Line("Saved mosaic", << >>),
                               Line("Albums used", << Len(images) >>) >>
    /\ pc' = "built"
    /\ UNCHANGED << albums, listing, fileIdx, images, grid, tile_size, tileIdx,
                    pasted >>
    /\ UNCHANGED driverVars
    /\ UNCHANGED readerVars

NextMosaic ==
    \/ BuildEmpty
    \/ ComputeGrid
    \/ PasteTile
    \/ SaveMosaic

SpecMosaic == InitMosaic /\ [][NextMosaic]_vars

\* ------------------------------------------------------------------------
\* load_images_from_disk
\* ------------------------------------------------------------------------
\* the characters of a path element
Expand(t) == IF t = ".jpg" THEN << ".", "j", "p", "g" >>
             ELSE IF t = ".miss" THEN << ".", "m", "i", "s", "s" >>
             ELSE << t >>

\* the file name as a string
RECURSIVE Chars(_)
Chars(path) == IF path = << >> THEN << >>
               ELSE Expand(Head(path)) \o Chars(Tail(path))

\* code point of a character, the order str comparison uses
Code(c) == IF c = "." THEN 46
           ELSE IF c = "0" THEN 48
           ELSE IF c = "1" THEN 49
           ELSE IF c = "_" THEN 95
           ELSE IF c = "a" THEN 97
           ELSE IF c = "b" THEN 98
           ELSE IF c = "g" THEN 103
           ELSE IF c = "i" THEN 105
           ELSE IF c = "j" THEN 106
           ELSE IF c = "m" THEN 109
           ELSE IF c = "p" THEN 112
           ELSE IF c = "s" THEN 115
           ELSE 120

\* s < t for two strings
RECURSIVE StrLess(_, _)
StrLess(s, t) ==
    IF t = << >> THEN FALSE
    ELSE IF s = << >> THEN TRUE
    ELSE IF Code(Head(s)) # Code(Head(t)) THEN Code(Head(s)) < Code(Head(t))
    ELSE StrLess(Tail(s), Tail(t))

RECURSIVE SortDescending(_)
SortDescending(S) ==
    IF S = {} THEN << >>
    ELSE LET top == CHOOSE x \in S :
                        \A y \in S : x = y \/ StrLess(Chars(y), Chars(x))
         IN  << top >> \o SortDescending(S \ {top})

\* variant: the names are sorted the other way round
SortNamesReversed(S) == SortDescending(S)

\* line 132: sorted(os.listdir(TEMP_DIR))
RECURSIVE SortNames(_)
SortNames(S) ==
    IF S = {} THEN << >>
    ELSE LET least == CHOOSE x \in S :
                          \A y \in S : x = y \/ StrLess(Chars(x), Chars(y))
         IN  << least >> \o SortNames(S \ {least})

\* line 133: fname.endswith(".jpg")
EndsWithJpg(path) ==
    LET c == Chars(path)
    IN  /\ Len(c) >= 4
        /\ SubSeq(c, Len(c) - 3, Len(c)) = << ".", "j", "p", "g" >>

\* line 137: Image.open(path).convert("RGB") succeeds on a complete image;
\* an empty or truncated file makes it raise
Decodable(content) == content = "image"

\* cache keys of the directories read; one is a prefix of two others
LoadKeys == { << "a" >>, << "a", "0" >>, << "a", "_", "x" >>, << "b" >> }

\* directories download_covers can leave: per key no artifact, a complete
\* or a partial one, and with or without the miss marker
LoadDisks ==
    LET arts == [LoadKeys -> {"none", "image", "partial"}]
        files(a, M) == { k \o << ".jpg" >> : k \in { q \in LoadKeys : a[q] # "none" } }
                       \cup { k \o << ".jpg", ".miss" >> : k \in M }
    IN  { [p \in files(a, M) |->
              IF p[Len(p)] = ".miss" THEN "empty"
              ELSE a[SubSeq(p, 1, Len(p) - 1)]] :
          a \in arts, M \in SUBSET LoadKeys }

InitLoad ==
    /\ disk \in LoadDisks
    /\ disk0 = disk
    /\ pc = "list"
    /\ listing = << >>
    /\ fileIdx = 1
    /\ images = << >>
    /\ grid = 0
    /\ tile_size = 0
    /\ tileIdx = 0
    /\ pasted = << >>
    /\ console = << >>
    /\ output = FALSE
    /\ albums = << >>
    /\ run = 1
    /\ i = 1
    /\ phase = "search"
    /\ attempt = 0
    /\ delay = 1
    /\ status = 0
    /\ nSearch = 0
    /\ nImage = 0
    /\ all429 = TRUE
    /\ waited = 0
    /\ backoffs = << >>
    /\ lastReq = 0
    /\ outcome = << >>
    /\ delayedAfter = {}
    /\ done = {}
    /\ rows = << >>
    /\ rowIdx = 1
    /\ seen = {}

\* lines 131-132: list the directory and sort the names
ListDir ==
    /\ pc = "list"
    /\ listing' = SortNames(DOMAIN disk)
    /\ pc' = "load"
    /\ UNCHANGED << albums, fileIdx, images, grid, tile_size, tileIdx, pasted,
                    console, output >>
    /\ UNCHANGED driverVars
    /\ UNCHANGED readerVars

\* lines 133-134: a name that does not end in .jpg is passed over
LoadSkipName ==
    /\ pc = "load"
    /\ fileIdx <= Len(listing)
    /\ ~EndsWithJpg(listing[fileIdx])
    /\ fileIdx' = fileIdx + 1
    /\ UNCHANGED << albums, pc, listing, images, grid, tile_size, tileIdx, pasted,
                    console, output >>
    /\ UNCHANGED driverVars
    /\ UNCHANGED readerVars

\* lines 135-137: the file decodes and is appended
LoadImage ==
    /\ pc = "load"
    /\ fileIdx <= Len(listing)
    /\ EndsWithJpg(listing[fileIdx])
    /\ Decodable(disk[listing[fileIdx]])
    /\ images' = Append(images, listing[fileIdx])
    /\ fileIdx' = fileIdx + 1
    /\ UNCHANGED << albums, pc, listing, grid, tile_size, tileIdx, pasted,
                    console, output >>
    /\ UNCHANGED driverVars
    /\ UNCHANGED readerVars

\* lines 136-139: opening the file raises, the file is passed over
LoadUndecodable ==
    /\ pc = "load"
    /\ fileIdx <= Len(listing)
    /\ EndsWithJpg(listing[fileIdx])
    /\ ~Decodable(disk[listing[fileIdx]])
    /\ fileIdx' = fileIdx + 1
    /\ UNCHANGED << albums, pc, listing, images, grid, tile_size, tileIdx, pasted,
                    console, output >>
    /\ UNCHANGED driverVars
    /\ UNCHANGED readerVars

\* line 140 and line 172: the list is returned and handed to build_mosaic
LoadReturn ==
    /\ pc = "load"
    /\ fileIdx > Len(listing)
    /\ pc' = "loaded"
    /\ UNCHANGED << albums, listing, fileIdx, images, grid, tile_size, tileIdx,
                    pasted, console, output >>
    /\ UNCHANGED driverVars
    /\ UNCHANGED readerVars

NextLoad ==
    \/ ListDir
    \/ LoadSkipName
    \/ LoadImage
    \/ LoadUndecodable
    \/ LoadReturn

SpecLoad == InitLoad /\ [][NextLoad]_vars

TypeOK ==
    /\ pc \in {"reading", "extracted", "build", "paste", "built", "list", "load",
               "loaded", "loop", "get", "resp", "parse", "decode", "save", "writing",
               "miss", "except", "delay", "returned", "abort"}
    /\ attempt \in 0..MAX_RETRIES
    /\ nSearch \in 0..MAX_RETRIES
    /\ nImage \in 0..MAX_RETRIES

\* ------------------------------------------------------------------------
\* Properties
\* ------------------------------------------------------------------------
Indices == 1..Len(albums)

\* the iteration of index j has ended in the current run
Finished(j) == j < i

\* an acquisition was attempted for index j in the current run
Attempted(j) == outcome[j] \notin {"pending", "skipped"}

Failures == {"request_raised", "exhausted", "bad_status", "no_result",
             "parse_raised", "decode_raised", "save_raised"}

HasArtifact(id) == Exists(cover_path(id))

HasMiss(id) == Exists(miss_path(id))

Pow2(n) == IF n = 0 THEN 1
           ELSE IF n = 1 THEN 2
           ELSE IF n = 2 THEN 4
           ELSE IF n = 3 THEN 8
           ELSE IF n = 4 THEN 16
           ELSE 32

\* C1: when download_covers returns, every identity of the list has exactly
\* one of its two cache files, the artifact or the miss marker, whatever the
\* outcomes of search, image request, decode and save were.
C1_ExactlyOneOutcome ==
    pc = "returned" =>
        \A j \in Indices : HasArtifact(albums[j]) # HasMiss(albums[j])

\* C2: in every state of a run, no cache key has both the artifact file and
\* the miss marker.
C2_NeverBoth ==
    \A id \in AlbumUniverse : ~(HasArtifact(id) /\ HasMiss(id))

\* C3: a second run on the same list, with the cache as the first run left
\* it, sends no HTTP request and leaves the cache directory as it found it.
C3_Resumable ==
    run > 1 => /\ lastReq = 0
               /\ nSearch = 0
               /\ nImage = 0
               /\ disk = disk0

C3_Witness ==
    /\ run = 2
    /\ pc = "returned"
    /\ Len(albums) = 2
    /\ HasMiss(albums[1]) /\ ~HasArtifact(albums[1])
    /\ HasArtifact(albums[2]) /\ ~HasMiss(albums[2])
    /\ outcome = << "skipped", "skipped" >>

\* C4: when every search request of an album is answered 429, the
\* acquisition ends after exactly MAX_RETRIES search requests, without an
\* image request and with the miss marker of the album; the call cannot go
\* on for ever, as each of its steps raises a measure bounded by MAX_RETRIES.
C4_Safe ==
    /\ nSearch <= MAX_RETRIES
    /\ (all429 /\ nSearch >= 1) =>
          /\ nImage = 0
          /\ pc \in {"get", "resp", "miss", "loop"}
          /\ pc \in {"miss", "loop"} =>
                /\ nSearch = MAX_RETRIES
                /\ outcome[lastReq] = "exhausted"
          /\ pc = "loop" => HasMiss(albums[lastReq])

InCall == pc \in {"get", "resp"}

\* grows with every step of a get_with_backoff call, never above 2 * MAX_RETRIES
CallProgress == 2 * attempt + (IF pc = "resp" THEN 1 ELSE 0)

C4_BackoffTerminates ==
    /\ [](C4_Safe /\ (InCall => CallProgress < 2 * MAX_RETRIES))
    /\ [][(InCall /\ InCall') => CallProgress' > CallProgress]_vars

C4_Witness ==
    /\ pc = "loop"
    /\ all429
    /\ nSearch = MAX_RETRIES
    /\ nImage = 0
    /\ lastReq = i - 1
    /\ HasMiss(albums[lastReq])
    /\ ~HasArtifact(albums[lastReq])

C6_DelayAfterEveryAttempt ==
    /\ \A j \in Indices :
          (Finished(j) /\ Attempted(j) /\ j < Len(albums)) => j \in delayedAfter
    /\ (pc = "get" /\ phase = "search" /\ nSearch = 0 /\ lastReq # 0)
          => waited >= BASE_DELAY

\* C7: the list returned by extract_unique_albums holds no two entries whose
\* normalized (artist, album) pairs are equal.
NormalizedPair(id) == << normalize(id[1]), normalize(id[2]) >>

C7_NoNormalizedDuplicates ==
    pc = "extracted" =>
        \A m, n \in Indices :
            m # n => NormalizedPair(albums[m]) # NormalizedPair(albums[n])

\* C8: a response with a status other than 200 and 429 ends the
\* get_with_backoff call at once with a failure: no further request, no
\* sleep, however many 429 responses came before.
C8_OtherStatusEndsCall ==
    [][(pc = "resp" /\ status \notin {200, 429})
          => /\ pc' = "miss"
             /\ outcome'[i] = "bad_status"
             /\ nSearch' = nSearch
             /\ nImage' = nImage
             /\ waited' = waited
             /\ backoffs' = backoffs
             /\ attempt' = attempt]_vars

C8_Witness ==
    /\ pc = "miss"
    /\ status = 503
    /\ Len(backoffs) = 3
    /\ nSearch = 4
    /\ outcome[i] = "bad_status"

\* C9: in one get_with_backoff call the k-th consecutive 429 is followed by
\* a wait of 2^(k-1) seconds, at most MAX_RETRIES requests are sent, and
\* every backoff wait is followed by another request of the same call.
C9_BackoffSchedule ==
    /\ [](/\ \A k \in 1..Len(backoffs) : backoffs[k] = Pow2(k - 1)
          /\ nSearch <= MAX_RETRIES
          /\ nImage <= MAX_RETRIES)
    /\ [][Len(backoffs') > Len(backoffs) => pc' = "get"]_vars

\* C10: an identity that is already resolved when the driver reaches it is
\* skipped: no HTTP request, no cache write, no BASE_DELAY wait.
C10_SkipIsFree ==
    [][(pc = "loop" /\ i <= Len(albums) /\ Resolved(cur))
          => /\ pc' = "loop"
             /\ i' = i + 1
             /\ disk' = disk
             /\ lastReq' = lastReq
             /\ nSearch' = 0
             /\ nImage' = 0
             /\ waited' = waited
             /\ delayedAfter' = delayedAfter]_vars

C10_Witness ==
    /\ run = 1
    /\ pc = "loop"
    /\ i = 3
    /\ outcome[1] = "saved"
    /\ outcome[2] = "skipped"
    /\ waited = BASE_DELAY
    /\ delayedAfter = {1}

\* C11: after a run that was killed at any point, running download_covers
\* again on the same list ends with every identity resolved by a complete
\* artifact or by a miss marker, never by a partially written artifact alone.
CompleteArtifact(id) == HasArtifact(id) /\ disk[cover_path(id)] = "image"

C11_KilledRunResumable ==
    (pc = "returned" /\ run > 1) =>
        \A j \in Indices : CompleteArtifact(albums[j]) \/ HasMiss(albums[j])

\* C12: for every tile count n >= 1, build_mosaic uses the smallest grid G
\* with G * G >= n (1 for 1 tile, 3 for 9, 4 for 10) and the tile size
\* T = floor(FINAL_SIZE / G).
C12_GridSizing ==
    (pc \in {"paste", "built"} /\ Len(images) >= 1) =>
        /\ grid >= 1
        /\ grid * grid >= Len(images)
        /\ (grid - 1) * (grid - 1) < Len(images)
        /\ tile_size * grid <= FINAL_SIZE
        /\ (tile_size + 1) * grid > FINAL_SIZE
        /\ Len(images) = 1 => grid = 1
        /\ Len(images) = 9 => grid = 3
        /\ Len(images) = 10 => grid = 4

C12_Witness ==
    /\ pc = "built"
    /\ Len(images) = 10
    /\ grid = 4
    /\ tile_size = 500

\* C13: build_mosaic on an empty image list writes no output file, raises
\* no error and reports that no album was used: its only output is the
\* "No images found." notice.
C13_EmptyList ==
    images = << >> =>
        /\ pc # "abort"
        /\ ~output
        /\ pasted = << >>
        /\ \A k \in 1..Len(console) :
              console[k][1] = "Albums used" => console[k][2] = << 0 >>
        /\ pc = "built" => console = << Line("No images found.", << >>) >>

C13_Witness ==
    /\ pc = "built"
    /\ images = << >>
    /\ console = << Line("No images found.", << >>) >>
    /\ ~output

\* C16: with tile size T >= 1, tile k (0-based) is pasted at
\* ((k mod G) * T, (k div G) * T); every tile lies inside the
\* FINAL_SIZE x FINAL_SIZE canvas and no two tiles overlap.
Disjoint(a, b) ==
    \/ a[1] + a[3] <= b[1]
    \/ b[1] + b[3] <= a[1]
    \/ a[2] + a[3] <= b[2]
    \/ b[2] + b[3] <= a[2]

C16_TilePlacement ==
    tile_size >= 1 =>
        /\ \A k \in 1..Len(pasted) :
              /\ pasted[k][1] = ((k - 1) % grid) * tile_size
              /\ pasted[k][2] = ((k - 1) \div grid) * tile_size
              /\ pasted[k][3] = tile_size
              /\ pasted[k][1] >= 0
              /\ pasted[k][2] >= 0
              /\ pasted[k][1] + tile_size <= FINAL_SIZE
              /\ pasted[k][2] + tile_size <= FINAL_SIZE
        /\ \A k, l \in 1..Len(pasted) : k # l => Disjoint(pasted[k], pasted[l])
        /\ pc = "built" => Len(pasted) = Len(images)

C16_Witness ==
    /\ pc = "built"
    /\ Len(pasted) = 10
    /\ pasted[10] = << 500, 1000, 500 >>
    /\ pasted[5] = << 0, 500, 500 >>

\* C14: an image request is sent only after the search call of the same
\* album returned 200 with an image reference; an artifact file is written
\* only after search and image call both ended with 200 and the decode
\* succeeded; and no acquisition both writes an artifact file (and leaves
\* it) and takes a miss outcome.
C14_Ordered ==
    /\ nImage >= 1 => {"search200", "imgref"} \subseteq done
    /\ "created" \in done =>
          {"search200", "imgref", "image200", "decoded"} \subseteq done

C14_StepOrdering ==
    /\ C14_Ordered
    /\ ~(/\ "created" \in done
         /\ "miss" \in done
         /\ HasArtifact(albums[lastReq]))

\* two list positions hold distinct identities with the same cache key
Collide(m, n) ==
    /\ m < n
    /\ albums[m] # albums[n]
    /\ cover_path(albums[m]) = cover_path(albums[n])

\* C15 as stated: when two distinct identities of the list map to the same
\* cache key, processing the later one overwrites the artifact stored for
\* the earlier one.
C15_LaterOverwrites ==
    \A m, n \in Indices :
        (Collide(m, n) /\ outcome[m] = "saved" /\ Finished(n))
            => outcome[n] = "saved"

\* C15 as amended: when two distinct identities of the list map to the same
\* cache key, the later one is skipped as already resolved: no request is
\* sent for it and the artifact stored for the earlier one stays as it is.
C15_LaterSkipped ==
    \A m, n \in Indices :
        (Collide(m, n) /\ Finished(n))
            => /\ outcome[n] = "skipped"
               /\ lastReq # n
               /\ outcome[m] = "saved" => CompleteArtifact(albums[m])

C15_Witness ==
    /\ pc = "returned"
    /\ Len(albums) = 2
    /\ Collide(1, 2)
    /\ outcome = << "saved", "skipped" >>
    /\ CompleteArtifact(albums[2])
    /\ lastReq = 1

\* the cache key of an artifact path or of a miss-marker path
KeyOf(path) == IF path[Len(path)] = ".miss" THEN SubSeq(path, 1, Len(path) - 2)
               ELSE SubSeq(path, 1, Len(path) - 1)

IsArtifactPath(path) == path[Len(path)] = ".jpg"

\* C17: the tiles handed to build_mosaic are exactly the decodable artifact
\* files of the cache directory, in ascending lexical order of their cache
\* keys; a miss marker is never a tile. (The list of albums is no input of
\* the loading, so its order cannot matter.)
C17_MosaicInput ==
    pc = "loaded" =>
        /\ { images[k] : k \in 1..Len(images) }
              = { p \in DOMAIN disk : IsArtifactPath(p) /\ disk[p] = "image" }
        /\ \A k, l \in 1..Len(images) :
              k < l => StrLess(KeyOf(images[k]), KeyOf(images[l]))
        /\ \A k \in 1..Len(images) : images[k][Len(images[k])] # ".miss"

C17_Witness ==
    /\ pc = "loaded"
    /\ images = << << "a", ".jpg" >>, << "a", "0", ".jpg" >>,
                   << "a", "_", "x", ".jpg" >> >>
    /\ << "b", ".jpg", ".miss" >> \in DOMAIN disk
    /\ << "a", ".jpg", ".miss" >> \in DOMAIN disk
    /\ << "b", ".jpg" >> \in DOMAIN disk
====
